---- MODULE Spec2Model ----
(***************************************************************************)
(* A model of the y4m crate (src/src/lib.rs): the YUV4MPEG2 prologue and   *)
(* frame parser (Decoder), the writer (EncoderBuilder, Encoder), and the   *)
(* pure helpers they share (read_until, parse_bytes, Ratio::parse,         *)
(* get_plane_sizes, VendorExtensionString::new).                           *)
(*                                                                         *)
(* Bytes are the integers 0..255 and a byte string is a sequence of them.  *)
(* A usize is an integer in 0..usize_MAX; the machine word is WordBits     *)
(* wide.  An arithmetic overflow panics when the crate is built with       *)
(* overflow checks (debug profile) and wraps otherwise (release profile):  *)
(* the variable overflow_checks holds the profile of the build.            *)
(***************************************************************************)
EXTENDS Integers, Sequences, FiniteSets, TLC

VARIABLES
    overflow_checks,  \* the build profile: TRUE panics on overflow, FALSE wraps
    builder,          \* the EncoderBuilder, or None
    encoder,          \* the Encoder (its y_len, u_len, v_len), or None
    out,              \* the bytes the Encoder's writer has received
    wfault,           \* the failure the writer has in store, or None
    written,          \* the frames of the stream, in order
    input,            \* the bytes of the Decoder's reader, or None
    pos,              \* how many bytes of input the reader has handed out
    decoder,          \* the Decoder, or None
    nread,            \* how many read_frame calls have returned a frame
    config,           \* the EncoderBuilder that write_header consumed, or None
    args,             \* the argument of a pure function under study
    ret               \* what the last operation returned

vars == <<overflow_checks, builder, encoder, out, wfault, written, input, pos,
          decoder, nread, config, args, ret>>

None == [tag |-> "None"]
Some(v) == [tag |-> "Some", val |-> v]

(***************************************************************************)
(* Bounds of the model.                                                    *)
(***************************************************************************)
WordBits == 8      \* width of usize in bits
MaxDim == 2        \* the encoder is given widths and heights 1..MaxDim
MaxFrames == 2     \* frames written to one stream
MaxExt == 1        \* vendor extensions appended to one builder
MaxStrLen == 4     \* length of the byte strings given to the pure parsers

usize_MAX == 2^WordBits - 1
wrap(x) == x % (usize_MAX + 1)

(***************************************************************************)
(* Program constants (lib.rs lines 11-16).                                 *)
(***************************************************************************)
MAX_PARAMS_SIZE == 1024
FILE_MAGICK == <<89, 85, 86, 52, 77, 80, 69, 71, 50, 32>>   \* "YUV4MPEG2 "
FRAME_MAGICK == <<70, 82, 65, 77, 69>>                      \* "FRAME"
TERMINATOR == 10
FIELD_SEP == 32
RATIO_SEP == 58

(***************************************************************************)
(* Results.  Error values are named as in enum Error and enum ParseError.  *)
(***************************************************************************)
Ok(v) == [ok |-> TRUE, val |-> v, err |-> "none"]
Err(e) == [ok |-> FALSE, val |-> None, err |-> e]
Panic == [ok |-> FALSE, val |-> None, err |-> "panic"]

IsParseError(e) ==
    e \in {"ParseError::InvalidY4M", "ParseError::Int", "ParseError::Utf8",
           "ParseError::General"}

(***************************************************************************)
(* Slices.                                                                 *)
(***************************************************************************)
\* s[from..to] of Rust, 0-based and half-open
Slice(s, from, to) == SubSeq(s, from + 1, to)

starts_with(s, prefix) ==
    /\ Len(s) >= Len(prefix)
    /\ \A i \in 1..Len(prefix) : s[i] = prefix[i]

contains(s, b) == \E i \in 1..Len(s) : s[i] = b

\* the 0-based positions of the separator b in s
SepPositions(s, b) == {i \in 0..(Len(s) - 1) : s[i + 1] = b}

SetMin(S) == CHOOSE x \in S : \A y \in S : x <= y

\* slice::split: the pieces of s between the separators, empty pieces included
RECURSIVE split(_, _)
split(s, b) ==
    IF SepPositions(s, b) = {} THEN <<s>>
    ELSE LET i == SetMin(SepPositions(s, b))
         IN  <<Slice(s, 0, i)>> \o split(Slice(s, i + 1, Len(s)), b)

\* slice::splitn(2, ..): at most two pieces, the second holds the rest
splitn2(s, b) ==
    IF SepPositions(s, b) = {} THEN <<s>>
    ELSE LET i == SetMin(SepPositions(s, b))
         IN  <<Slice(s, 0, i), Slice(s, i + 1, Len(s))>>

(***************************************************************************)
(* str::from_utf8: whether the bytes are well-formed UTF-8.                *)
(***************************************************************************)
IsCont(b) == b >= 128 /\ b <= 191

RECURSIVE ValidUtf8From(_, _)
ValidUtf8From(s, i) ==
    IF i > Len(s) THEN TRUE
    ELSE LET b == s[i]
             has(k) == i + k <= Len(s)
         IN  IF b < 128 THEN ValidUtf8From(s, i + 1)
             ELSE IF b >= 194 /\ b <= 223
                  THEN has(1) /\ IsCont(s[i + 1]) /\ ValidUtf8From(s, i + 2)
             ELSE IF b >= 224 /\ b <= 239
                  THEN /\ has(2)
                       /\ IsCont(s[i + 1]) /\ IsCont(s[i + 2])
                       /\ (b = 224 => s[i + 1] >= 160)
                       /\ (b = 237 => s[i + 1] <= 159)
                       /\ ValidUtf8From(s, i + 3)
             ELSE IF b >= 240 /\ b <= 244
                  THEN /\ has(3)
                       /\ IsCont(s[i + 1]) /\ IsCont(s[i + 2]) /\ IsCont(s[i + 3])
                       /\ (b = 240 => s[i + 1] >= 144)
                       /\ (b = 244 => s[i + 1] <= 143)
                       /\ ValidUtf8From(s, i + 4)
             ELSE FALSE

from_utf8_ok(s) == ValidUtf8From(s, 1)

(***************************************************************************)
(* <usize as FromStr>::from_str: an optional '+', then one or more decimal *)
(* digits whose value fits the machine word.  -1 stands for ParseIntError. *)
(***************************************************************************)
IsDigit(b) == b >= 48 /\ b <= 57

RECURSIVE ParseDigits(_, _, _)
ParseDigits(s, i, acc) ==
    IF i > Len(s) THEN acc
    ELSE IF ~IsDigit(s[i]) THEN -1
    ELSE LET next == acc * 10 + (s[i] - 48)
         IN  IF next > usize_MAX THEN -1 ELSE ParseDigits(s, i + 1, next)

usize_from_str(s) ==
    IF Len(s) = 0 THEN -1
    ELSE IF s[1] \in {43, 45} /\ Len(s) = 1 THEN -1
    ELSE IF s[1] = 43 THEN ParseDigits(s, 2, 0)
    ELSE ParseDigits(s, 1, 0)

\* fn parse_bytes
parse_bytes(buf) ==
    IF ~from_utf8_ok(buf) THEN Err("ParseError::Utf8")
    ELSE IF usize_from_str(buf) = -1 THEN Err("ParseError::Int")
    ELSE Ok(usize_from_str(buf))

\* Display for usize: the decimal digits, no sign, no leading zero
RECURSIVE fmt_usize(_)
fmt_usize(n) ==
    IF n < 10 THEN <<48 + n>> ELSE fmt_usize(n \div 10) \o <<48 + (n % 10)>>

(***************************************************************************)
(* Ratio.                                                                  *)
(***************************************************************************)
Ratio_new(num, den) == [num |-> num, den |-> den]

\* a faulty variant of Ratio::parse: a part that is no integer is reported as General
Ratio_parse_general(value) ==
    LET parts == splitn2(value, RATIO_SEP)
    IN  IF Len(parts) # 2 THEN Err("ParseError::General")
        ELSE LET num == parse_bytes(parts[1])
                 den == parse_bytes(parts[2])
             IN  IF ~num.ok \/ ~den.ok THEN Err("ParseError::General")
                 ELSE Ok(Ratio_new(num.val, den.val))

\* Ratio::parse
Ratio_parse(value) ==
    LET parts == splitn2(value, RATIO_SEP)
    IN  IF Len(parts) # 2 THEN Err("ParseError::General")
        ELSE LET num == parse_bytes(parts[1])
                 den == parse_bytes(parts[2])
             IN  IF ~num.ok THEN num
                 ELSE IF ~den.ok THEN den
                 ELSE Ok(Ratio_new(num.val, den.val))

\* Display for Ratio
fmt_Ratio(r) == fmt_usize(r.num) \o <<RATIO_SEP>> \o fmt_usize(r.den)

(***************************************************************************)
(* Colorspace.                                                             *)
(***************************************************************************)
Colorspaces ==
    {"Cmono", "Cmono12", "C420", "C420p10", "C420p12", "C420jpeg", "C420paldv",
     "C420mpeg2", "C422", "C422p10", "C422p12", "C444", "C444p10", "C444p12"}

\* Colorspace::get_bit_depth
get_bit_depth(colorspace) ==
    IF colorspace \in {"Cmono", "C420", "C422", "C444", "C420jpeg", "C420paldv",
                       "C420mpeg2"} THEN 8
    ELSE IF colorspace \in {"C420p10", "C422p10", "C444p10"} THEN 10
    ELSE 12

\* Colorspace::get_bytes_per_sample
get_bytes_per_sample(colorspace) ==
    IF get_bit_depth(colorspace) <= 8 THEN 1 ELSE 2

\* the match of the C tag's value in Decoder::new_with_limits, in source order
ColorspaceTags ==
    <<
      [tag |-> <<109, 111, 110, 111>>, colorspace |-> "Cmono"],
      [tag |-> <<109, 111, 110, 111, 49, 50>>, colorspace |-> "Cmono12"],
      [tag |-> <<52, 50, 48>>, colorspace |-> "C420"],
      [tag |-> <<52, 50, 48, 112, 49, 48>>, colorspace |-> "C420p10"],
      [tag |-> <<52, 50, 48, 112, 49, 50>>, colorspace |-> "C420p12"],
      [tag |-> <<52, 50, 50>>, colorspace |-> "C422"],
      [tag |-> <<52, 50, 50, 112, 49, 48>>, colorspace |-> "C422p10"],
      [tag |-> <<52, 50, 50, 112, 49, 50>>, colorspace |-> "C422p12"],
      [tag |-> <<52, 52, 52>>, colorspace |-> "C444"],
      [tag |-> <<52, 52, 52, 112, 49, 48>>, colorspace |-> "C444p10"],
      [tag |-> <<52, 52, 52, 112, 49, 50>>, colorspace |-> "C444p12"],
      [tag |-> <<52, 50, 48, 106, 112, 101, 103>>, colorspace |-> "C420jpeg"],
      [tag |-> <<52, 50, 48, 112, 97, 108, 100, 118>>, colorspace |-> "C420paldv"],
      [tag |-> <<52, 50, 48, 109, 112, 101, 103, 50>>, colorspace |-> "C420mpeg2"]
    >>

\* derive(Debug) for Colorspace: the name of the variant
fmt_Colorspace(colorspace) ==
    IF colorspace = "Cmono" THEN <<67, 109, 111, 110, 111>>
    ELSE IF colorspace = "Cmono12" THEN <<67, 109, 111, 110, 111, 49, 50>>
    ELSE IF colorspace = "C420" THEN <<67, 52, 50, 48>>
    ELSE IF colorspace = "C420p10" THEN <<67, 52, 50, 48, 112, 49, 48>>
    ELSE IF colorspace = "C420p12" THEN <<67, 52, 50, 48, 112, 49, 50>>
    ELSE IF colorspace = "C420jpeg" THEN <<67, 52, 50, 48, 106, 112, 101, 103>>
    ELSE IF colorspace = "C420paldv" THEN <<67, 52, 50, 48, 112, 97, 108, 100, 118>>
    ELSE IF colorspace = "C420mpeg2" THEN <<67, 52, 50, 48, 109, 112, 101, 103, 50>>
    ELSE IF colorspace = "C422" THEN <<67, 52, 50, 50>>
    ELSE IF colorspace = "C422p10" THEN <<67, 52, 50, 50, 112, 49, 48>>
    ELSE IF colorspace = "C422p12" THEN <<67, 52, 50, 50, 112, 49, 50>>
    ELSE IF colorspace = "C444" THEN <<67, 52, 52, 52>>
    ELSE IF colorspace = "C444p10" THEN <<67, 52, 52, 52, 112, 49, 48>>
    ELSE <<67, 52, 52, 52, 112, 49, 50>>

\* a faulty variant of match_colorspace: an unrecognized value falls back to 4:2:0
match_colorspace_lenient(value) ==
    IF \E i \in 1..Len(ColorspaceTags) : ColorspaceTags[i].tag = value
    THEN Ok((CHOOSE t \in {ColorspaceTags[i] : i \in 1..Len(ColorspaceTags)} :
                t.tag = value).colorspace)
    ELSE Ok("C420")

\* the arm of the match that a C tag's value selects
match_colorspace(value) ==
    IF \E i \in 1..Len(ColorspaceTags) : ColorspaceTags[i].tag = value
    THEN Ok((CHOOSE t \in {ColorspaceTags[i] : i \in 1..Len(ColorspaceTags)} :
                t.tag = value).colorspace)
    ELSE Err("UnknownColorspace")

(***************************************************************************)
(* fn get_plane_sizes.  Every product and sum is taken in the machine      *)
(* word; overflow tells whether one of them left it.  All three chroma     *)
(* candidates are computed before the match, as in the source.             *)
(***************************************************************************)
get_plane_sizes(width, height, colorspace) ==
    LET bps == get_bytes_per_sample(colorspace)
        wh == wrap(width * height)
        y_plane_size == wrap(wh * bps)
        w2 == wrap(width + 1) \div 2
        h2 == wrap(height + 1) \div 2
        c420_area == wrap(w2 * h2)
        c420_chroma_size == wrap(c420_area * bps)
        c422_area == wrap(w2 * height)
        c422_chroma_size == wrap(c422_area * bps)
        overflow ==
            \/ width * height > usize_MAX
            \/ wh * bps > usize_MAX
            \/ width + 1 > usize_MAX
            \/ height + 1 > usize_MAX
            \/ w2 * h2 > usize_MAX
            \/ c420_area * bps > usize_MAX
            \/ w2 * height > usize_MAX
            \/ c422_area * bps > usize_MAX
        sizes(y, u, v) == [y_len |-> y, u_len |-> u, v_len |-> v,
                           overflow |-> overflow]
    IN  IF colorspace \in {"Cmono", "Cmono12"} THEN sizes(y_plane_size, 0, 0)
        ELSE IF colorspace \in {"C420", "C420p10", "C420p12", "C420jpeg",
                                "C420paldv", "C420mpeg2"}
             THEN sizes(y_plane_size, c420_chroma_size, c420_chroma_size)
        ELSE IF colorspace \in {"C422", "C422p10", "C422p12"}
             THEN sizes(y_plane_size, c422_chroma_size, c422_chroma_size)
        ELSE sizes(y_plane_size, y_plane_size, y_plane_size)

(***************************************************************************)
(* VendorExtensionString::new                                              *)
(***************************************************************************)
VendorExtensionString_new(value) ==
    IF contains(value, FIELD_SEP) THEN Err("BadInput") ELSE Ok(value)

(***************************************************************************)
(* A zero-initialised buffer of fixed length (vec![0; len]) is held as its *)
(* length and the prefix that has been written so far: the slots beyond    *)
(* the prefix still hold 0.                                                *)
(***************************************************************************)
vec_zeroed(len) == [len |-> len, data |-> <<>>]

\* buf[k], 0-based
BufAt(buf, k) == IF k < Len(buf.data) THEN buf.data[k + 1] ELSE 0

\* buf[from..to].to_owned()
BufSlice(buf, from, to) == [k \in 1..(to - from) |-> BufAt(buf, from + k - 1)]

\* buf.starts_with(prefix)
buf_starts_with(buf, prefix) ==
    /\ buf.len >= Len(prefix)
    /\ \A i \in 1..Len(prefix) : BufAt(buf, i - 1) = prefix[i]

(***************************************************************************)
(* Failures of the underlying stream.  A reader is the sequence of what    *)
(* its successive reads hand out: a byte, or, above 255, an io::Error of   *)
(* the kind UnexpectedEof or of another kind.                              *)
(***************************************************************************)
ErrUnexpectedEof == 256
ErrOther == 257

IsIoErr(x) == x >= 256

\* err.kind()
io_kind(x) == IF x = ErrUnexpectedEof THEN "UnexpectedEof" ELSE "Other"

\* impl From<io::Error> for Error
From_io_Error(kind) == IF kind = "UnexpectedEof" THEN "EOF" ELSE "IoError"

(***************************************************************************)
(* The reader: the bytes stream[p+1..] are still to be read.  A read of    *)
(* one byte at the end of the stream returns 0, a read that fails returns  *)
(* its error and the reader moves on.                                      *)
(*                                                                         *)
(* EnhancedRead::read_until.  The loop reads one byte per turn into        *)
(* buf[collected]; it stops at the first byte equal to ch (Ok(collected)), *)
(* at the end of the stream (EOF), or when buf is full (General).  So the  *)
(* loop looks at the first min(avail, buf.len()) bytes, and every byte it  *)
(* has read, the terminator included, has overwritten its slot of buf; the *)
(* slots beyond keep what earlier scans left there.                        *)
(***************************************************************************)
\* a faulty variant of read_until: the loop gives up one byte before buf is full
read_until_short(stream, p, ch, buf) ==
    LET avail == Len(stream) - p
        looked == IF avail < buf.len - 1 THEN avail ELSE buf.len - 1
        hits == {i \in 0..(looked - 1) : stream[p + i + 1] = ch}
        taken == IF hits # {} THEN SetMin(hits) + 1 ELSE looked
        filled == SubSeq(stream, p + 1, p + taken)
                  \o SubSeq(buf.data, taken + 1, Len(buf.data))
    IN  [res |-> IF hits # {} THEN Ok(SetMin(hits))
                 ELSE IF avail < buf.len - 1 THEN Err("EOF")
                 ELSE Err("ParseError::General"),
         buf |-> [buf EXCEPT !.data = filled],
         pos |-> p + taken]

\* a faulty variant of read_until: the reader is asked for two bytes at a time,
\* so the byte behind the terminator can be consumed with it
read_until_chunked(stream, p, ch, buf) ==
    LET avail == Len(stream) - p
        looked == IF avail < buf.len THEN avail ELSE buf.len
        hits == {i \in 0..(looked - 1) : stream[p + i + 1] = ch}
        taken == IF hits # {} THEN SetMin(hits) + 1 ELSE looked
        consumed == IF taken % 2 = 1 /\ taken < avail THEN taken + 1 ELSE taken
        filled == SubSeq(stream, p + 1, p + taken)
                  \o SubSeq(buf.data, taken + 1, Len(buf.data))
    IN  [res |-> IF hits # {} THEN Ok(SetMin(hits))
                 ELSE IF avail < buf.len THEN Err("EOF")
                 ELSE Err("ParseError::General"),
         buf |-> [buf EXCEPT !.data = filled],
         pos |-> p + consumed]

read_until(stream, p, ch, buf) ==
    LET avail == Len(stream) - p
        looked == IF avail < buf.len THEN avail ELSE buf.len
        hits == {i \in 0..(looked - 1) : stream[p + i + 1] = ch \/ IsIoErr(stream[p + i + 1])}
        failed == hits # {} /\ IsIoErr(stream[p + SetMin(hits) + 1])
        taken == IF hits # {} THEN SetMin(hits) + 1 ELSE looked
        stored == IF failed THEN taken - 1 ELSE taken
        filled == SubSeq(stream, p + 1, p + stored)
                  \o SubSeq(buf.data, stored + 1, Len(buf.data))
    IN  [res |-> IF failed THEN Err(From_io_Error(io_kind(stream[p + taken])))
                 ELSE IF hits # {} THEN Ok(SetMin(hits))
                 ELSE IF avail < buf.len THEN Err("EOF")
                 ELSE Err("ParseError::General"),
         buf |-> [buf EXCEPT !.data = filled],
         pos |-> p + taken]

\* a faulty variant of read_exact: a short read is reported as an I/O error
read_exact_io_error(stream, p, buf) ==
    LET avail == Len(stream) - p
    IN  IF avail >= Len(buf)
        THEN [res |-> Ok(None),
              buf |-> [k \in 1..Len(buf) |-> stream[p + k]],
              pos |-> p + Len(buf)]
        ELSE [res |-> Err("IoError"), buf |-> buf, pos |-> Len(stream)]

\* Read::read_exact: fills buf, or fails with the reader's error or, at the end
\* of the stream, with UnexpectedEof; From<io::Error> (the ? of line 446) turns
\* the error into EOF or IoError.  What was read before is consumed either way
read_exact(stream, p, buf) ==
    LET avail == Len(stream) - p
        looked == IF avail < Len(buf) THEN avail ELSE Len(buf)
        fails == {i \in 0..(looked - 1) : IsIoErr(stream[p + i + 1])}
        got == IF fails # {} THEN SetMin(fails) ELSE looked
        kept == [k \in 1..Len(buf) |-> IF k <= got THEN stream[p + k] ELSE buf[k]]
    IN  IF fails # {}
        THEN [res |-> Err(From_io_Error(io_kind(stream[p + got + 1]))),
              buf |-> kept, pos |-> p + got + 1]
        ELSE IF avail >= Len(buf)
        THEN [res |-> Ok(None), buf |-> kept, pos |-> p + Len(buf)]
        ELSE [res |-> Err(From_io_Error("UnexpectedEof")), buf |-> kept,
              pos |-> Len(stream)]

(***************************************************************************)
(* Decoder::new_with_limits                                                *)
(***************************************************************************)
\* the state of the loop over the prologue's tokens, before the first token
PrologueDefaults ==
    [width |-> 0, height |-> 0, framerate |-> Ratio_new(25, 1),
     pixel_aspect |-> Ratio_new(1, 1), colorspace |-> None]

\* one turn of the loop: the token param updates the fields st, or fails
parse_param(param, st) ==
    IF Len(param) = 0 THEN Ok(st)
    ELSE LET name == param[1]
             value == Slice(param, 1, Len(param))
         IN  IF name = 87 THEN          \* b'W'
                 LET r == parse_bytes(value)
                 IN  IF r.ok THEN Ok([st EXCEPT !.width = r.val]) ELSE r
             ELSE IF name = 72 THEN     \* b'H'
                 LET r == parse_bytes(value)
                 IN  IF r.ok THEN Ok([st EXCEPT !.height = r.val]) ELSE r
             ELSE IF name = 70 THEN     \* b'F'
                 LET r == Ratio_parse(value)
                 IN  IF r.ok THEN Ok([st EXCEPT !.framerate = r.val]) ELSE r
             ELSE IF name = 65 THEN     \* b'A'
                 LET r == Ratio_parse(value)
                 IN  IF r.ok THEN Ok([st EXCEPT !.pixel_aspect = r.val]) ELSE r
             ELSE IF name = 67 THEN     \* b'C'
                 LET r == match_colorspace(value)
                 IN  IF r.ok THEN Ok([st EXCEPT !.colorspace = Some(r.val)]) ELSE r
             ELSE Ok(st)

\* the loop over raw_params.split(FIELD_SEP), from token i on: the first
\* failing token ends it
RECURSIVE parse_params(_, _, _)
parse_params(tokens, i, st) ==
    IF i > Len(tokens) THEN Ok(st)
    ELSE LET r == parse_param(tokens[i], st)
         IN  IF r.ok THEN parse_params(tokens, i + 1, r.val) ELSE r

\* lines 404-426: the checks after the loop, and the Decoder itself
build_decoder(params_buf, raw_params, st, limits, oc) ==
    LET colorspace == IF st.colorspace.tag = "None" THEN "C420" ELSE st.colorspace.val
        sizes == get_plane_sizes(st.width, st.height, colorspace)
        sum_overflow ==
            \/ sizes.y_len + sizes.u_len > usize_MAX
            \/ wrap(sizes.y_len + sizes.u_len) + sizes.v_len > usize_MAX
        frame_size == wrap(wrap(sizes.y_len + sizes.u_len) + sizes.v_len)
    IN  IF st.width = 0 \/ st.height = 0 THEN Err("ParseError::General")
        ELSE IF oc /\ (sizes.overflow \/ sum_overflow) THEN Panic
        ELSE IF frame_size > limits THEN Err("OutOfMemory")
        ELSE Ok([tag |-> "Decoder",
                 params_buf |-> params_buf,
                 frame_buf |-> [k \in 1..frame_size |-> 0],
                 raw_params |-> raw_params,
                 width |-> st.width,
                 height |-> st.height,
                 framerate |-> st.framerate,
                 pixel_aspect |-> st.pixel_aspect,
                 colorspace |-> colorspace,
                 y_len |-> sizes.y_len,
                 u_len |-> sizes.u_len])

\* what the constructor returns, and where it leaves the reader
Decoder_new_with_limits(stream, p, limits, oc) ==
    LET scan == read_until(stream, p, TERMINATOR, vec_zeroed(MAX_PARAMS_SIZE))
        end_params_pos == scan.res.val
        raw_params == BufSlice(scan.buf, Len(FILE_MAGICK), end_params_pos)
        st == parse_params(split(raw_params, FIELD_SEP), 1, PrologueDefaults)
    IN  [pos |-> scan.pos,
         res |-> IF ~scan.res.ok THEN scan.res
                 ELSE IF end_params_pos < Len(FILE_MAGICK)
                         \/ ~buf_starts_with(scan.buf, FILE_MAGICK)
                      THEN Err("ParseError::InvalidY4M")
                 ELSE IF ~st.ok THEN st
                 ELSE build_decoder(scan.buf, raw_params, st.val, limits, oc)]

(***************************************************************************)
(* Decoder::read_frame: what it returns, the Decoder after it, and where   *)
(* it leaves the reader.                                                   *)
(***************************************************************************)
Frame_new(planes, raw_params) == [planes |-> planes, raw_params |-> raw_params]

\* a faulty variant of frame_raw_params: the byte after the magic is not checked
frame_raw_params_any_sep(params_buf, end_params_pos) ==
    LET start_params_pos == Len(FRAME_MAGICK)
    IN  IF end_params_pos < Len(FRAME_MAGICK)
           \/ ~buf_starts_with(params_buf, FRAME_MAGICK)
        THEN Err("ParseError::InvalidY4M")
        ELSE IF end_params_pos - start_params_pos > 0
             THEN Ok(Some(BufSlice(params_buf, start_params_pos + 1, end_params_pos)))
        ELSE Ok(None)

\* lines 432-445: from the scanned line to the frame's raw parameters
frame_raw_params(params_buf, end_params_pos) ==
    LET start_params_pos == Len(FRAME_MAGICK)
    IN  IF end_params_pos < Len(FRAME_MAGICK)
           \/ ~buf_starts_with(params_buf, FRAME_MAGICK)
        THEN Err("ParseError::InvalidY4M")
        ELSE IF end_params_pos - start_params_pos > 0
             THEN IF BufAt(params_buf, start_params_pos) # FIELD_SEP
                  THEN Err("ParseError::InvalidY4M")
                  ELSE Ok(Some(BufSlice(params_buf, start_params_pos + 1,
                                        end_params_pos)))
        ELSE Ok(None)

\* lines 447-454: the three planes are slices of frame_buf; a slice past its
\* end panics
frame_planes(frame_buf, y_len, u_len, raw_params) ==
    IF y_len > Len(frame_buf) \/ y_len + u_len > Len(frame_buf) THEN Panic
    ELSE Ok(Frame_new(<<Slice(frame_buf, 0, y_len),
                        Slice(frame_buf, y_len, y_len + u_len),
                        Slice(frame_buf, y_len + u_len, Len(frame_buf))>>,
                      raw_params))

read_frame(self, stream, p) ==
    LET scan == read_until(stream, p, TERMINATOR, self.params_buf)
        params == frame_raw_params(scan.buf, scan.res.val)
        body == read_exact(stream, scan.pos, self.frame_buf)
    IN  IF ~scan.res.ok
        THEN [res |-> scan.res, pos |-> scan.pos,
              self |-> [self EXCEPT !.params_buf = scan.buf]]
        ELSE IF ~params.ok
        THEN [res |-> params, pos |-> scan.pos,
              self |-> [self EXCEPT !.params_buf = scan.buf]]
        ELSE [res |-> IF ~body.res.ok THEN body.res
                      ELSE frame_planes(body.buf, self.y_len, self.u_len, params.val),
              pos |-> body.pos,
              self |-> [self EXCEPT !.params_buf = scan.buf, !.frame_buf = body.buf]]

(***************************************************************************)
(* EncoderBuilder and Encoder.  The writer is the byte string w.           *)
(***************************************************************************)
EncoderBuilder_new(width, height, framerate) ==
    [tag |-> "EncoderBuilder",
     width |-> width,
     height |-> height,
     framerate |-> framerate,
     pixel_aspect |-> Ratio_new(1, 1),
     colorspace |-> "C420",
     vendor_extensions |-> <<>>]

with_colorspace(self, colorspace) == [self EXCEPT !.colorspace = colorspace]

with_pixel_aspect(self, pixel_aspect) == [self EXCEPT !.pixel_aspect = pixel_aspect]

append_vendor_extension(self, x_option) ==
    [self EXCEPT !.vendor_extensions = Append(@, x_option)]

\* the loop of lines 621-624, from extension i on
RECURSIVE fmt_vendor_extensions(_, _)
fmt_vendor_extensions(exts, i) ==
    IF i > Len(exts) THEN <<>>
    ELSE <<FIELD_SEP, 88>> \o exts[i] \o fmt_vendor_extensions(exts, i + 1)

\* lines 612-626: the bytes write_header sends to the writer
header_bytes(self) ==
    FILE_MAGICK
    \o <<87>> \o fmt_usize(self.width)
    \o <<FIELD_SEP, 72>> \o fmt_usize(self.height)
    \o <<FIELD_SEP, 70>> \o fmt_Ratio(self.framerate)
    \o (IF self.pixel_aspect.num # 1 \/ self.pixel_aspect.den # 1
        THEN <<FIELD_SEP, 65>> \o fmt_Ratio(self.pixel_aspect)
        ELSE <<>>)
    \o fmt_vendor_extensions(self.vendor_extensions, 1)
    \o <<FIELD_SEP>> \o fmt_Colorspace(self.colorspace)
    \o <<TERMINATOR>>

\* The writer w has received the bytes w; fault is None, or says how many more
\* bytes the writer accepts before its next write returns an io::Error, and of
\* which kind.
WFault(after, kind) == [tag |-> "Some", after |-> after, kind |-> kind]

\* data is what an operation sends with its write_all and write! calls, in
\* order.  The writer takes all of it, or takes the bytes before its failure
\* and the ? of the failing call returns the error through From<io::Error>.
write_all(w, fault, data) ==
    IF fault.tag = "None"
    THEN [out |-> w \o data, fault |-> None, res |-> Ok(None)]
    ELSE IF Len(data) <= fault.after
    THEN [out |-> w \o data,
          fault |-> WFault(fault.after - Len(data), fault.kind),
          res |-> Ok(None)]
    ELSE [out |-> w \o SubSeq(data, 1, fault.after),
          fault |-> None,
          res |-> Err(From_io_Error(fault.kind))]

\* EncoderBuilder::write_header: the header is written before the plane sizes
\* are computed
write_header(self, w, fault, oc) ==
    LET sent == write_all(w, fault, header_bytes(self))
        sizes == get_plane_sizes(self.width, self.height, self.colorspace)
    IN  [out |-> sent.out,
         fault |-> sent.fault,
         res |-> IF ~sent.res.ok THEN sent.res
                 ELSE IF oc /\ sizes.overflow THEN Panic
                 ELSE Ok([tag |-> "Encoder",
                          y_len |-> sizes.y_len,
                          u_len |-> sizes.u_len,
                          v_len |-> sizes.v_len])]

\* a faulty variant of frame_record: the chroma planes are written V before U
frame_record_vu(frame) ==
    FRAME_MAGICK
    \o (IF frame.raw_params.tag = "Some"
        THEN <<FIELD_SEP>> \o frame.raw_params.val
        ELSE <<>>)
    \o <<TERMINATOR>>
    \o frame.planes[1] \o frame.planes[3] \o frame.planes[2]

\* a faulty variant of frame_record: empty raw parameters are not written
frame_record_drop_empty(frame) ==
    FRAME_MAGICK
    \o (IF frame.raw_params.tag = "Some" /\ frame.raw_params.val # <<>>
        THEN <<FIELD_SEP>> \o frame.raw_params.val
        ELSE <<>>)
    \o <<TERMINATOR>>
    \o frame.planes[1] \o frame.planes[2] \o frame.planes[3]

\* lines 654-662: the bytes write_frame sends to the writer
frame_record(frame) ==
    FRAME_MAGICK
    \o (IF frame.raw_params.tag = "Some"
        THEN <<FIELD_SEP>> \o frame.raw_params.val
        ELSE <<>>)
    \o <<TERMINATOR>>
    \o frame.planes[1] \o frame.planes[2] \o frame.planes[3]

\* a faulty variant of write_frame: only the Y plane's length is checked
write_frame_y_only(self, w, fault, frame) ==
    IF Len(frame.planes[1]) # self.y_len
    THEN [out |-> w, fault |-> fault, res |-> Err("BadInput")]
    ELSE write_all(w, fault, frame_record(frame))

\* Encoder::write_frame
write_frame(self, w, fault, frame) ==
    IF \/ Len(frame.planes[1]) # self.y_len
       \/ Len(frame.planes[2]) # self.u_len
       \/ Len(frame.planes[3]) # self.v_len
    THEN [out |-> w, fault |-> fault, res |-> Err("BadInput")]
    ELSE write_all(w, fault, frame_record(frame))

\* Encoder::flush: failure is what the writer's flush returns, "none" when it
\* succeeds; map_err wraps every error in IoError
flush(self, failure) == IF failure = "none" THEN Ok(None) ELSE Err("IoError")

(***************************************************************************)
(* The inputs the callers supply.                                          *)
(***************************************************************************)
Dims == 1..MaxDim

Framerates == {Ratio_new(25, 1), Ratio_new(usize_MAX, 0)}

PixelAspects == {Ratio_new(1, 1), Ratio_new(4, 3)}

LowLimit == 10     \* Limits { bytes: 10 }

LimitsSet == {LowLimit, usize_MAX}

\* a plane of n bytes; the seeds make the terminator and the magic's first
\* byte occur in the payload
plane(seed, n) == [k \in 1..n |-> (seed + k) % 256]

\* the frames the caller writes: one without raw parameters, one with "I"
FrameInputs == {[seed |-> 9, params |-> None], [seed |-> 69, params |-> Some(<<73>>)]}

\* how far each plane of the caller's frame is from the size the Encoder holds
FrameShapes == {<<0, 0, 0>>, <<-1, 0, 0>>, <<1, 0, 0>>, <<0, 1, 0>>, <<0, 0, 1>>}

synth_frame(y, u, v, seed, params) ==
    Frame_new(<<plane(seed, y), plane(seed + 100, u), plane(seed + 200, v)>>, params)

(***************************************************************************)
(* The operations, one action each.  ret records the operation, what it    *)
(* was given and what it returned.  A panic ends the program.              *)
(***************************************************************************)
Call(op, arg, res) == [op |-> op, arg |-> arg, res |-> res]

Running == ret.res.err # "panic"

\* the result without its value, for an operation whose value is kept in a variable
Outcome(res) == [ok |-> res.ok, val |-> None, err |-> res.err]

EncoderBuilderNew(width, height, framerate) ==
    /\ Running
    /\ builder.tag = "None" /\ encoder.tag = "None" /\ input.tag = "None"
    /\ out = <<>>
    /\ builder' = EncoderBuilder_new(width, height, framerate)
    /\ ret' = Call("EncoderBuilder::new", None, Ok(None))
    /\ UNCHANGED <<wfault, overflow_checks, encoder, out, written, input, pos, decoder,
                   nread, config, args>>

WithColorspace(colorspace) ==
    /\ Running
    /\ builder.tag = "EncoderBuilder"
    /\ builder' = with_colorspace(builder, colorspace)
    /\ ret' = Call("with_colorspace", None, Ok(None))
    /\ UNCHANGED <<wfault, overflow_checks, encoder, out, written, input, pos, decoder,
                   nread, config, args>>

WithPixelAspect(pixel_aspect) ==
    /\ Running
    /\ builder.tag = "EncoderBuilder"
    /\ builder' = with_pixel_aspect(builder, pixel_aspect)
    /\ ret' = Call("with_pixel_aspect", None, Ok(None))
    /\ UNCHANGED <<wfault, overflow_checks, encoder, out, written, input, pos, decoder,
                   nread, config, args>>

\* VendorExtensionString::new(value)
VendorExtensionStringNew(value) ==
    /\ Running
    /\ builder.tag = "EncoderBuilder"
    /\ Len(builder.vendor_extensions) < MaxExt
    /\ ret' = Call("VendorExtensionString::new", [value |-> value],
                   Outcome(VendorExtensionString_new(value)))
    /\ UNCHANGED <<wfault, overflow_checks, builder, encoder, out, written, input, pos,
                   decoder, nread, config, args>>

\* builder.append_vendor_extension(x_option), x_option being the
\* VendorExtensionString just made
AppendVendorExtension ==
    /\ Running
    /\ builder.tag = "EncoderBuilder"
    /\ ret.op = "VendorExtensionString::new" /\ ret.res.ok
    /\ builder' = append_vendor_extension(builder, ret.arg.value)
    /\ ret' = Call("append_vendor_extension", None, Ok(None))
    /\ UNCHANGED <<wfault, overflow_checks, encoder, out, written, input, pos, decoder,
                   nread, config, args>>

WriteHeader ==
    /\ Running
    /\ builder.tag = "EncoderBuilder"
    /\ LET r == write_header(builder, out, wfault, overflow_checks)
       IN  /\ out' = r.out
           /\ wfault' = r.fault
           /\ encoder' = IF r.res.ok THEN r.res.val ELSE None
           /\ ret' = Call("write_header", [wfault |-> wfault], Outcome(r.res))
    /\ config' = builder
    /\ builder' = None
    /\ UNCHANGED <<overflow_checks, written, input, pos, decoder, nread, args>>

WriteFrame(frame) ==
    /\ Running
    /\ encoder.tag = "Encoder"
    /\ Len(written) < MaxFrames
    /\ LET r == write_frame(encoder, out, wfault, frame)
       IN  /\ out' = r.out
           /\ wfault' = r.fault
           /\ written' = IF r.res.ok THEN Append(written, frame) ELSE written
           /\ ret' = Call("write_frame",
                          [lens |-> <<Len(frame.planes[1]), Len(frame.planes[2]),
                                      Len(frame.planes[3])>>,
                           wfault |-> wfault],
                          r.res)
    /\ UNCHANGED <<overflow_checks, builder, encoder, input, pos, decoder, nread,
                   config, args>>

\* Encoder::flush, the writer's flush succeeding or failing
Flush(failure) ==
    /\ Running
    /\ encoder.tag = "Encoder"
    /\ ret.op # "flush"
    /\ ret' = Call("flush", [failure |-> failure], flush(encoder, failure))
    /\ UNCHANGED <<wfault, overflow_checks, builder, encoder, out, written, input,
                   pos, decoder, nread, config, args>>

\* Encoder::into_inner: the caller gets the writer back; its bytes are what a
\* Decoder is then given to read
IntoInner ==
    /\ Running
    /\ encoder.tag = "Encoder"
    /\ encoder' = None
    /\ input' = Some(out)
    /\ pos' = 0
    /\ ret' = Call("into_inner", None, Ok(None))
    /\ UNCHANGED <<wfault, overflow_checks, builder, out, written, decoder, nread, config,
                   args>>

\* Decoder::new_with_limits(reader, Limits { bytes: limits })
DecoderNew(limits) ==
    /\ Running
    /\ input.tag = "Some" /\ decoder.tag = "None"
    /\ ret.op # "Decoder::new_with_limits"
    /\ LET r == Decoder_new_with_limits(input.val, pos, limits, overflow_checks)
       IN  /\ decoder' = IF r.res.ok THEN r.res.val ELSE None
           /\ pos' = r.pos
           /\ ret' = Call("Decoder::new_with_limits",
                          [limits |-> limits, pos |-> pos], Outcome(r.res))
    /\ UNCHANGED <<wfault, overflow_checks, builder, encoder, out, written, input, nread,
                   config, args>>

ReadFrame ==
    /\ Running
    /\ decoder.tag = "Decoder"
    /\ LET r == read_frame(decoder, input.val, pos)
       IN  /\ decoder' = r.self
           /\ pos' = r.pos
           /\ nread' = IF r.res.ok THEN nread + 1 ELSE nread
           /\ ret' = Call("read_frame", [nread |-> nread, pos |-> pos], r.res)
    /\ UNCHANGED <<wfault, overflow_checks, builder, encoder, out, written, input, config,
                   args>>

(***************************************************************************)
(* Encoding a stream and decoding it again.                                *)
(***************************************************************************)
Start == Call("start", None, Ok(None))

Init ==
    /\ overflow_checks \in BOOLEAN
    /\ wfault = None
    /\ builder = None /\ encoder = None /\ out = <<>> /\ written = <<>>
    /\ input = None /\ pos = 0 /\ decoder = None /\ nread = 0
    /\ config = None /\ args = None
    /\ ret = Start

WriteSomeFrame ==
    \E f \in FrameInputs, shape \in FrameShapes :
        /\ encoder.tag = "Encoder"
        /\ encoder.y_len + shape[1] >= 0
        /\ encoder.u_len + shape[2] >= 0
        /\ encoder.v_len + shape[3] >= 0
        /\ WriteFrame(synth_frame(encoder.y_len + shape[1], encoder.u_len + shape[2],
                                  encoder.v_len + shape[3], f.seed, f.params))

Next ==
    \/ \E width \in Dims, height \in Dims, framerate \in Framerates :
          EncoderBuilderNew(width, height, framerate)
    \/ \E colorspace \in Colorspaces : WithColorspace(colorspace)
    \/ \E pixel_aspect \in PixelAspects : WithPixelAspect(pixel_aspect)
    \/ WriteHeader
    \/ WriteSomeFrame
    \/ IntoInner
    \/ \E limits \in LimitsSet : DecoderNew(limits)
    \/ ReadFrame

Spec == Init /\ [][Next]_vars

(***************************************************************************)
(* The plane layout as the format defines it, in exact arithmetic.         *)
(***************************************************************************)
EightBit == {"Cmono", "C420", "C420jpeg", "C420paldv", "C420mpeg2", "C422", "C444"}
MonoVariants == {"Cmono", "Cmono12"}
Variants420 == {"C420", "C420p10", "C420p12", "C420jpeg", "C420paldv", "C420mpeg2"}
Variants422 == {"C422", "C422p10", "C422p12"}
Variants444 == {"C444", "C444p10", "C444p12"}

ExactBps(cs) == IF cs \in EightBit THEN 1 ELSE 2

CeilHalf(n) == IF n % 2 = 0 THEN n \div 2 ELSE (n \div 2) + 1

ExactYLen(w, h, cs) == w * h * ExactBps(cs)

ExactChromaLen(w, h, cs) ==
    IF cs \in MonoVariants THEN 0
    ELSE IF cs \in Variants420 THEN CeilHalf(w) * CeilHalf(h) * ExactBps(cs)
    ELSE IF cs \in Variants422 THEN CeilHalf(w) * h * ExactBps(cs)
    ELSE ExactYLen(w, h, cs)

ExactFrameSize(w, h, cs) == ExactYLen(w, h, cs) + 2 * ExactChromaLen(w, h, cs)

\* the length of a frame's record: "FRAME", the raw parameters after a space,
\* the terminator, the three planes
RecordLen(f) ==
    5 + (IF f.raw_params.tag = "Some" THEN 1 + Len(f.raw_params.val) ELSE 0) + 1
    + Len(f.planes[1]) + Len(f.planes[2]) + Len(f.planes[3])

RECURSIVE RecordsLen(_, _)
RecordsLen(frames, n) ==
    IF n = 0 THEN 0 ELSE RecordsLen(frames, n - 1) + RecordLen(frames[n])

SameRatio(a, b) == a.num = b.num /\ a.den = b.den

\* the Decoder reports the geometry that was encoded
DecodedAsEncoded ==
    /\ decoder.width = config.width
    /\ decoder.height = config.height
    /\ decoder.colorspace = config.colorspace
    /\ SameRatio(decoder.framerate, config.framerate)

\* the read_frame call that ret records returned the frame written at its place
ReadBackInOrder ==
    /\ ret.res.ok
    /\ ret.res.val.planes[1] = written[ret.arg.nread + 1].planes[1]
    /\ ret.res.val.planes[2] = written[ret.arg.nread + 1].planes[2]
    /\ ret.res.val.planes[3] = written[ret.arg.nread + 1].planes[3]

(***************************************************************************)
(* C1 as stated: a stream written by write_header and N write_frame calls  *)
(* is decoded by Decoder construction and N read_frame calls into the      *)
(* frames written, in order, with the encoded width, height, colorspace    *)
(* and framerate, whatever the geometry.  It fails: the constructor        *)
(* refuses a frame larger than Limits.bytes.                               *)
(***************************************************************************)
C1_RoundTripEveryGeometry ==
    /\ ret.op = "Decoder::new_with_limits" => ret.res.ok
    /\ decoder.tag = "Decoder" => DecodedAsEncoded
    /\ (ret.op = "read_frame" /\ ret.arg.nread < Len(written)) => ReadBackInOrder

(***************************************************************************)
(* C1 amended: the round trip holds for every geometry whose frame size    *)
(* y_len + u_len + v_len is at most the Limits.bytes the Decoder is        *)
(* constructed with and less than usize::MAX.                              *)
(***************************************************************************)
C1_RoundTripWithinLimits ==
    /\ (/\ ret.op = "Decoder::new_with_limits"
        /\ ExactFrameSize(config.width, config.height, config.colorspace)
               <= ret.arg.limits
        /\ ExactFrameSize(config.width, config.height, config.colorspace)
               < usize_MAX)
       => ret.res.ok
    /\ decoder.tag = "Decoder" => DecodedAsEncoded
    /\ (ret.op = "read_frame" /\ ret.arg.nread < Len(written)) => ReadBackInOrder

\* two different frames of odd width and 16-bit samples have been read back
C1_Witness ==
    /\ ret.op = "read_frame" /\ ret.res.ok
    /\ nread = 2 /\ Len(written) = 2
    /\ written[1].planes[1] # written[2].planes[1]
    /\ decoder.width = 1 /\ decoder.colorspace = "C422p12"
    /\ decoder.framerate.den = 0

(***************************************************************************)
(* C4: write_frame with a plane whose length differs from the size stored  *)
(* at write_header fails with BadInput, appends nothing to the stream and  *)
(* leaves the Encoder as it was; a frame of the stored sizes is accepted   *)
(* and its record is appended in full, whatever was rejected before.       *)
(***************************************************************************)
C4_RecordBytes(f) ==
    <<70, 82, 65, 77, 69>>
    \o (IF f.raw_params.tag = "Some" THEN <<32>> \o f.raw_params.val ELSE <<>>)
    \o <<10>> \o f.planes[1] \o f.planes[2] \o f.planes[3]

C4_Step ==
    (ret'.op = "write_frame" /\ encoder.tag = "Encoder")
    => /\ encoder' = encoder
       /\ encoder.y_len = ExactYLen(config.width, config.height, config.colorspace)
       /\ IF ret'.arg.lens # <<encoder.y_len, encoder.u_len, encoder.v_len>>
          THEN /\ ret'.res.err = "BadInput"
               /\ out' = out
               /\ written' = written
          ELSE /\ ret'.res.ok
               /\ Len(written') = Len(written) + 1
               /\ out' = out \o C4_RecordBytes(written'[Len(written')])

C4_BadInputWritesNothing == [][C4_Step]_vars

\* a frame with a wrong U plane was rejected after a frame had been accepted
C4_Witness ==
    /\ ret.op = "write_frame" /\ ret.res.err = "BadInput"
    /\ Len(written) = 1
    /\ encoder.tag = "Encoder"
    /\ ret.arg.lens[1] = encoder.y_len /\ ret.arg.lens[2] # encoder.u_len

(***************************************************************************)
(* Encoding with vendor extensions, and decoding the stream again.         *)
(***************************************************************************)
\* "a", "a b", "a\nb" and the empty string
ExtValues == {<<97>>, <<97, 32, 98>>, <<97, 10, 98>>, <<>>}

VendorNext ==
    \/ \E width \in Dims, height \in Dims : EncoderBuilderNew(width, height, Ratio_new(25, 1))
    \/ \E colorspace \in {"Cmono", "C444p10"} : WithColorspace(colorspace)
    \/ \E value \in ExtValues : VendorExtensionStringNew(value)
    \/ AppendVendorExtension
    \/ WriteHeader
    \/ WriteSomeFrame
    \/ IntoInner
    \/ \E limits \in LimitsSet : DecoderNew(limits)
    \/ ReadFrame

SpecVendor == Init /\ [][VendorNext]_vars

\* the tokens of a prologue's raw parameters that begin with X, in order
RECURSIVE XTokens(_, _)
XTokens(tokens, i) ==
    IF i > Len(tokens) THEN <<>>
    ELSE IF Len(tokens[i]) > 0 /\ tokens[i][1] = 88
         THEN <<tokens[i]>> \o XTokens(tokens, i + 1)
         ELSE XTokens(tokens, i + 1)

\* the extensions of the builder, each as its token X<bytes>
ExtTokens(exts) == [i \in 1..Len(exts) |-> <<88>> \o exts[i]]

(***************************************************************************)
(* C7: VendorExtensionString::new fails with BadInput exactly for the      *)
(* strings that contain a space, and a prologue written with accepted      *)
(* extensions is decoded with the encoded width, height, framerate and     *)
(* colorspace, shows every extension as its own X token, in order, in      *)
(* get_raw_params, and leaves the reader at the first byte written after   *)
(* the prologue.  It fails for an accepted extension that holds the        *)
(* terminator byte.                                                        *)
(***************************************************************************)
C7_VendorExtensionsSafe ==
    /\ ret.op = "VendorExtensionString::new"
       => /\ ret.res.ok <=> ~(\E i \in 1..Len(ret.arg.value) : ret.arg.value[i] = 32)
          /\ ~ret.res.ok => ret.res.err = "BadInput"
    /\ (ret.op = "Decoder::new_with_limits" /\ ret.arg.limits = usize_MAX)
       => /\ ret.res.ok
          /\ decoder.tag = "Decoder"
          /\ DecodedAsEncoded
          /\ XTokens(split(decoder.raw_params, 32), 1)
                 = ExtTokens(config.vendor_extensions)
          /\ pos = Len(input.val) - RecordsLen(written, Len(written))

(***************************************************************************)
(* get_plane_sizes on its own: the arguments are drawn from small values   *)
(* and from values near the middle and the top of the machine word.        *)
(***************************************************************************)
DimSamples ==
    (0..(2 * MaxDim + 1))
    \cup {2^(WordBits \div 2), usize_MAX \div 2, usize_MAX \div 2 + 1,
          usize_MAX - 1, usize_MAX}

GetPlaneSizes ==
    /\ Running
    /\ ret.op = "start" /\ args.tag = "PlaneArgs"
    /\ LET sizes == get_plane_sizes(args.width, args.height, args.colorspace)
       IN  ret' = Call("get_plane_sizes", None,
                       IF overflow_checks /\ sizes.overflow THEN Panic
                       ELSE Ok(<<sizes.y_len, sizes.u_len, sizes.v_len>>))
    /\ UNCHANGED <<wfault, overflow_checks, builder, encoder, out, written, input, pos,
                   decoder, nread, config, args>>

InitPlane ==
    /\ overflow_checks \in BOOLEAN
    /\ wfault = None
    /\ builder = None /\ encoder = None /\ out = <<>> /\ written = <<>>
    /\ input = None /\ pos = 0 /\ decoder = None /\ nread = 0
    /\ config = None
    /\ args \in {[tag |-> "PlaneArgs", width |-> w, height |-> h, colorspace |-> cs] :
                    w \in DimSamples, h \in DimSamples, cs \in Colorspaces}
    /\ ret = Start

SpecPlane == InitPlane /\ [][GetPlaneSizes]_vars

(***************************************************************************)
(* C2: for every width, height and colorspace get_plane_sizes returns      *)
(* y_len = width*height*bps, and u_len = v_len = 0 (mono),                 *)
(* ceil(width/2)*ceil(height/2)*bps (4:2:0), ceil(width/2)*height*bps      *)
(* (4:2:2), y_len (4:4:4).  It fails where a product or width + 1 leaves   *)
(* the machine word: the function panics or returns the wrapped value.     *)
(***************************************************************************)
C2_PlaneLayout ==
    ret.op = "get_plane_sizes"
    => /\ ret.res.ok
       /\ ret.res.val[1] = ExactYLen(args.width, args.height, args.colorspace)
       /\ ret.res.val[2] = ExactChromaLen(args.width, args.height, args.colorspace)
       /\ ret.res.val[3] = ExactChromaLen(args.width, args.height, args.colorspace)

\* the layout holds wherever no intermediate value of the function leaves the word
C2_PlaneLayoutInWord ==
    (/\ ret.op = "get_plane_sizes"
     /\ args.width < usize_MAX /\ args.height < usize_MAX
     /\ ExactYLen(args.width, args.height, args.colorspace) <= usize_MAX)
    => C2_PlaneLayout

(***************************************************************************)
(* Decoding a stream that was not written by this program's Encoder.       *)
(***************************************************************************)
DecodeNext ==
    \/ \E limits \in LimitsSet : DecoderNew(limits)
    \/ ReadFrame

\* the Decoder's reader holds one of the streams; config and args are set by
\* the specification
InitDecode(streams) ==
    /\ overflow_checks \in BOOLEAN
    /\ wfault = None
    /\ builder = None /\ encoder = None /\ out = <<>> /\ written = <<>>
    /\ input \in {Some(s) : s \in streams}
    /\ pos = 0 /\ decoder = None /\ nread = 0
    /\ ret = Start

(***************************************************************************)
(* Prologues that declare any width and height the machine word holds.     *)
(***************************************************************************)
InitLimits ==
    /\ config \in {with_colorspace(EncoderBuilder_new(w, h, Ratio_new(25, 1)), cs) :
                      w \in DimSamples, h \in DimSamples, cs \in Colorspaces}
    /\ args = None
    /\ InitDecode({header_bytes(config)})

SpecLimits == InitLimits /\ [][DecodeNext]_vars

(***************************************************************************)
(* C3: when the frame size the prologue declares, by the plane-layout      *)
(* formula, exceeds Limits.bytes, construction fails with OutOfMemory and  *)
(* there is no Decoder; a Decoder is produced only when the declared size  *)
(* is at most Limits.bytes, and its frame buffer has the declared size.    *)
(* It fails for a W and H whose product leaves the machine word.           *)
(***************************************************************************)
C3_AllocationLimit ==
    ret.op = "Decoder::new_with_limits"
    => LET declared == ExactFrameSize(config.width, config.height, config.colorspace)
       IN  /\ declared > ret.arg.limits
              => ret.res.err = "OutOfMemory" /\ decoder.tag = "None"
           /\ ret.res.ok
              => /\ declared <= ret.arg.limits
                 /\ Len(decoder.frame_buf) = declared

\* the limit holds wherever the declared frame size fits the machine word
C3_AllocationLimitInWord ==
    (/\ config.width < usize_MAX /\ config.height < usize_MAX
     /\ ExactFrameSize(config.width, config.height, config.colorspace) <= usize_MAX)
    => C3_AllocationLimit

(***************************************************************************)
(* A stream the Encoder wrote, cut short anywhere after its prologue.      *)
(***************************************************************************)
TruncColorspaces == {"Cmono", "C420", "C422p10", "C444"}

\* the sequences of at most n frames of the sizes the builder b declares
FrameSeqs(b, n) ==
    LET sizes == get_plane_sizes(b.width, b.height, b.colorspace)
        frames == {synth_frame(sizes.y_len, sizes.u_len, sizes.v_len, f.seed, f.params) :
                      f \in FrameInputs}
    IN  UNION {[1..k -> frames] : k \in 0..n}

RECURSIVE records(_, _)
records(frames, i) ==
    IF i > Len(frames) THEN <<>> ELSE frame_record(frames[i]) \o records(frames, i + 1)

InitTrunc ==
    /\ overflow_checks \in BOOLEAN
    /\ wfault = None
    /\ builder = None /\ encoder = None
    /\ config \in {with_colorspace(EncoderBuilder_new(w, h, Ratio_new(25, 1)), cs) :
                      w \in Dims, h \in Dims, cs \in TruncColorspaces}
    /\ written \in FrameSeqs(config, MaxFrames)
    /\ out = header_bytes(config) \o records(written, 1)
    /\ input \in {Some(SubSeq(out, 1, n)) : n \in Len(header_bytes(config))..Len(out)}
    /\ pos = 0 /\ decoder = None /\ nread = 0
    /\ args = None
    /\ ret = Start

SpecTrunc == InitTrunc /\ [][DecodeNext]_vars

(***************************************************************************)
(* C5: on a valid prologue followed by k complete frame records the first  *)
(* k read_frame calls succeed and every later call returns EOF; when the   *)
(* stream ends inside a frame header line or inside the payload, the       *)
(* read_frame call that reaches the end returns EOF, and no ParseError or  *)
(* IoError.  Here out is the stream as written, input the part of it that  *)
(* the Decoder is given, and written its frames.                           *)
(***************************************************************************)
C5_EndOfStreamIsEOF ==
    ret.op = "read_frame"
    => LET i == ret.arg.nread
           prologue == Len(out) - RecordsLen(written, Len(written))
           complete ==
               /\ i < Len(written)
               /\ prologue + RecordsLen(written, i + 1) <= Len(input.val)
       IN  IF complete THEN ret.res.ok
           ELSE ~ret.res.ok /\ ret.res.err = "EOF"

\* the second record of two is cut inside its payload: one frame was read, then EOF
C5_Witness ==
    /\ ret.op = "read_frame" /\ ret.res.err = "EOF"
    /\ Len(written) = 2 /\ nread = 1
    /\ Len(input.val) = Len(out) - 1

(***************************************************************************)
(* Streams whose prologue or frame header line is about as long as the     *)
(* header-scratch buffer.                                                  *)
(***************************************************************************)
\* "YUV4MPEG2 W1 H1 Cmono"
ShortPrologue ==
    <<89, 85, 86, 52, 77, 80, 69, 71, 50, 32, 87, 49, 32, 72, 49, 32, 67, 109, 111,
      110, 111>>

\* line extended to n bytes with the byte 'x'
PadTo(line, n) == line \o [k \in 1..(n - Len(line)) |-> 120]

ScanLens == {23, 24} \cup {MAX_PARAMS_SIZE + d : d \in {-2, -1, 0, 1, 2}}

ScanStreams ==
    {PadTo(ShortPrologue \o <<32, 88>>, n) \o tail :
        n \in ScanLens, tail \in {<<>>, <<10, 70, 82, 65, 77, 69, 10, 7>>}}
    \cup
    {ShortPrologue \o <<10>> \o PadTo(FRAME_MAGICK \o <<32>>, n) \o tail :
        n \in ScanLens, tail \in {<<>>, <<10, 7>>, <<10, 7, 70, 82, 65, 77, 69, 10, 8>>}}

InitScan == config = None /\ args = None /\ InitDecode(ScanStreams)

SpecScan == InitScan /\ [][DecodeNext]_vars

(***************************************************************************)
(* C6: the header scan of the prologue and of every frame header reads at  *)
(* most 1024 bytes; with no terminator among the first 1024 bytes it fails *)
(* with ParseError::General; when the stream ends after fewer than 1024    *)
(* bytes with no terminator it fails with EOF; a line whose terminator is  *)
(* among the first 1024 bytes is captured in full, without the terminator. *)
(***************************************************************************)
C6_ScanBound ==
    ret.op \in {"Decoder::new_with_limits", "read_frame"}
    => LET s == input.val
           from == ret.arg.pos
           rest == Len(s) - from
           window == IF rest < 1024 THEN rest ELSE 1024
           terms == {i \in 1..window : s[from + i] = 10}
           line == SubSeq(s, from + 1, from + SetMin(terms) - 1)
       IN  IF terms = {}
           THEN /\ ~ret.res.ok
                /\ ret.res.err = IF rest < 1024 THEN "EOF" ELSE "ParseError::General"
                /\ pos = from + window
           ELSE /\ ret.res.err # "ParseError::General"
                /\ ret.op = "Decoder::new_with_limits"
                   => /\ ret.res.ok
                      /\ decoder.raw_params = SubSeq(line, 11, Len(line))
                      /\ pos = from + Len(line) + 1
                /\ (ret.op = "read_frame" /\ ret.res.ok)
                   => IF Len(line) = 5 THEN ret.res.val.raw_params.tag = "None"
                      ELSE /\ ret.res.val.raw_params.tag = "Some"
                           /\ ret.res.val.raw_params.val = SubSeq(line, 7, Len(line))
                /\ (ret.op = "read_frame" /\ ret.res.err = "EOF")
                   => rest - (Len(line) + 1) < Len(decoder.frame_buf)

\* a frame header line of 1023 bytes, the longest the buffer takes, was captured
C6_Witness ==
    /\ ret.op = "read_frame" /\ ret.res.ok
    /\ ret.res.val.raw_params.tag = "Some"
    /\ Len(ret.res.val.raw_params.val) = MAX_PARAMS_SIZE - 7

\* a prologue of 1024 bytes and more was refused
C6_WitnessGeneral ==
    /\ ret.op = "Decoder::new_with_limits" /\ ret.res.err = "ParseError::General"
    /\ pos = MAX_PARAMS_SIZE

(***************************************************************************)
(* Ratio::parse on its own.                                                *)
(***************************************************************************)
\* '0', '1', ':', '+', 'x', the two bytes of U+00E9, and a byte no UTF-8 text holds
RatioAlphabet == {48, 49, 58, 43, 120, 195, 169, 255}

RatioInputs == UNION {[1..n -> RatioAlphabet] : n \in 0..MaxStrLen}

RatioParse ==
    /\ Running
    /\ ret.op = "start" /\ args.tag = "RatioArgs"
    /\ ret' = Call("Ratio::parse", None, Ratio_parse(args.value))
    /\ UNCHANGED <<wfault, overflow_checks, builder, encoder, out, written, input, pos,
                   decoder, nread, config, args>>

InitRatio ==
    /\ overflow_checks \in BOOLEAN
    /\ wfault = None
    /\ builder = None /\ encoder = None /\ out = <<>> /\ written = <<>>
    /\ input = None /\ pos = 0 /\ decoder = None /\ nread = 0
    /\ config = None
    /\ args \in {[tag |-> "RatioArgs", value |-> v] : v \in RatioInputs}
    /\ ret = Start

SpecRatio == InitRatio /\ [][RatioParse]_vars

\* the value of a string of decimal digits
RECURSIVE DecValue(_)
DecValue(t) ==
    IF Len(t) = 0 THEN 0
    ELSE 10 * DecValue(SubSeq(t, 1, Len(t) - 1)) + (t[Len(t)] - 48)

AllDigits(t) == Len(t) > 0 /\ \A i \in 1..Len(t) : t[i] >= 48 /\ t[i] <= 57

\* t is the text of an unsigned integer of the machine word: decimal digits, which
\* from_str lets follow a '+'
Unsigned(t) == IF Len(t) > 0 /\ t[1] = 43 THEN SubSeq(t, 2, Len(t)) ELSE t
IsUsizeText(t) == AllDigits(Unsigned(t)) /\ DecValue(Unsigned(t)) <= usize_MAX

Colons(t) == {i \in 1..Len(t) : t[i] = 58}
BeforeColon(t) == SubSeq(t, 1, SetMin(Colons(t)) - 1)
AfterColon(t) == SubSeq(t, SetMin(Colons(t)) + 1, Len(t))
Ascii(t) == \A i \in 1..Len(t) : t[i] < 128

(***************************************************************************)
(* C9 as stated: Ratio::parse succeeds exactly when the input is two       *)
(* nonempty unsigned integers around one ':', returning them, and every    *)
(* other input fails with ParseError::General.  It fails: an empty part, a *)
(* second ':' and a part that is no integer give ParseError::Int.          *)
(***************************************************************************)
C9_OtherShapesAreGeneral ==
    ret.op = "Ratio::parse"
    => LET t == args.value
           shaped == /\ Colons(t) # {}
                     /\ IsUsizeText(BeforeColon(t)) /\ IsUsizeText(AfterColon(t))
       IN  /\ ret.res.ok <=> shaped
           /\ ret.res.ok => /\ ret.res.val.num = DecValue(Unsigned(BeforeColon(t)))
                            /\ ret.res.val.den = DecValue(Unsigned(AfterColon(t)))
           /\ ~ret.res.ok => ret.res.err = "ParseError::General"

(***************************************************************************)
(* C9 amended: Ratio::parse splits once on the first ':' and succeeds      *)
(* exactly when both parts are unsigned integers of the machine word,      *)
(* returning them (a zero denominator included); an input without ':'      *)
(* fails with ParseError::General, and an input with ':' whose first       *)
(* failing part is empty, holds a further ':' or another non-digit, or     *)
(* overflows fails with ParseError::Int (ParseError::Utf8 when that part   *)
(* is not UTF-8).                                                          *)
(***************************************************************************)
C9_RatioParse ==
    ret.op = "Ratio::parse"
    => LET t == args.value
           failing == IF IsUsizeText(BeforeColon(t)) THEN AfterColon(t)
                      ELSE BeforeColon(t)
       IN  IF Colons(t) = {}
           THEN ~ret.res.ok /\ ret.res.err = "ParseError::General"
           ELSE /\ ret.res.ok <=> (IsUsizeText(BeforeColon(t)) /\ IsUsizeText(AfterColon(t)))
                /\ ret.res.ok => /\ ret.res.val.num = DecValue(Unsigned(BeforeColon(t)))
                                 /\ ret.res.val.den = DecValue(Unsigned(AfterColon(t)))
                /\ ~ret.res.ok => /\ ret.res.err \in {"ParseError::Int", "ParseError::Utf8"}
                                  /\ Ascii(failing) => ret.res.err = "ParseError::Int"
                                  /\ (\E i \in 1..Len(failing) : failing[i] = 255)
                                         => ret.res.err = "ParseError::Utf8"

\* "1::0" was refused with ParseError::Int
C9_Witness ==
    /\ ret.op = "Ratio::parse"
    /\ args.value = <<49, 58, 58, 48>>
    /\ ret.res.err = "ParseError::Int"

\* "1:0" was accepted
C9_WitnessZeroDen ==
    /\ ret.op = "Ratio::parse" /\ ret.res.ok
    /\ args.value = <<49, 58, 48>>
    /\ ret.res.val.den = 0

(***************************************************************************)
(* Prologues made of a few tokens, well-formed and not.                    *)
(***************************************************************************)
MaxTokens == 3

\* W2 H2 Wx F30:1 F1 A: Cxyz C C444 Xf, the empty token, and H with a byte that
\* is not UTF-8
PrologueTokens ==
    {<<87, 50>>, <<72, 50>>, <<87, 120>>, <<70, 51, 48, 58, 49>>, <<70, 49>>,
     <<65, 58>>, <<67, 120, 121, 122>>, <<67>>, <<67, 52, 52, 52>>, <<88, 102>>,
     <<>>, <<72, 255>>}

RECURSIVE JoinTokens(_, _)
JoinTokens(tokens, i) ==
    IF i > Len(tokens) THEN <<>>
    ELSE (IF i > 1 THEN <<32>> ELSE <<>>) \o tokens[i] \o JoinTokens(tokens, i + 1)

InitPrologue ==
    /\ config = None
    /\ args \in {[tag |-> "Tokens", tokens |-> t] :
                    t \in UNION {[1..n -> PrologueTokens] : n \in 0..MaxTokens}}
    /\ InitDecode({FILE_MAGICK \o JoinTokens(args.tokens, 1) \o <<10>>})

SpecPrologue == InitPrologue /\ [][DecodeNext]_vars

\* the 14 colorspace tags of the format
RecognizedTags ==
    {<<109, 111, 110, 111>>,
     <<109, 111, 110, 111, 49, 50>>,
     <<52, 50, 48>>,
     <<52, 50, 48, 112, 49, 48>>,
     <<52, 50, 48, 112, 49, 50>>,
     <<52, 50, 48, 106, 112, 101, 103>>,
     <<52, 50, 48, 112, 97, 108, 100, 118>>,
     <<52, 50, 48, 109, 112, 101, 103, 50>>,
     <<52, 50, 50>>,
     <<52, 50, 50, 112, 49, 48>>,
     <<52, 50, 50, 112, 49, 50>>,
     <<52, 52, 52>>,
     <<52, 52, 52, 112, 49, 48>>,
     <<52, 52, 52, 112, 49, 50>>}

TokenValue(t) == SubSeq(t, 2, Len(t))
IsCToken(t) == Len(t) > 0 /\ t[1] = 67
UnknownC(t) == IsCToken(t) /\ TokenValue(t) \notin RecognizedTags
IsRatioText(v) ==
    Colons(v) # {} /\ IsUsizeText(BeforeColon(v)) /\ IsUsizeText(AfterColon(v))
\* a W, H, F or A token whose value does not parse
Malformed(t) ==
    /\ Len(t) > 0
    /\ \/ t[1] \in {87, 72} /\ ~IsUsizeText(TokenValue(t))
       \/ t[1] \in {70, 65} /\ ~IsRatioText(TokenValue(t))

UnknownCAt(toks) == {i \in 1..Len(toks) : UnknownC(toks[i])}
MalformedAt(toks) == {i \in 1..Len(toks) : Malformed(toks[i])}

(***************************************************************************)
(* C8 as stated: a prologue with a C token whose value is not one of the   *)
(* 14 tags fails with UnknownColorspace, not with a ParseError, whatever   *)
(* its other tokens are; a prologue with no C token does not fail so and   *)
(* decodes as 4:2:0.  It fails: a malformed W, H, F or A token before the  *)
(* C token is reported first.                                              *)
(***************************************************************************)
C8_UnknownColorspaceWhatever ==
    ret.op = "Decoder::new_with_limits"
    => LET toks == args.tokens
       IN  /\ UnknownCAt(toks) # {} => ret.res.err = "UnknownColorspace"
           /\ (\A i \in 1..Len(toks) : ~IsCToken(toks[i]))
              => /\ ret.res.err # "UnknownColorspace"
                 /\ ret.res.ok => decoder.colorspace = "C420"

(***************************************************************************)
(* C8 amended: construction fails with UnknownColorspace when the          *)
(* prologue has a C token with an unrecognized value and no W, H, F or A   *)
(* token before the first such C token is malformed; when one is, it fails *)
(* with that token's ParseError.  Without an unrecognized C token it never *)
(* fails with UnknownColorspace, and without any C token it decodes as     *)
(* 4:2:0.                                                                  *)
(***************************************************************************)
C8_UnknownColorspaceFirst ==
    ret.op = "Decoder::new_with_limits"
    => LET toks == args.tokens
           unknown == UnknownCAt(toks)
           earlier == {j \in MalformedAt(toks) : j < SetMin(unknown)}
       IN  /\ (unknown # {} /\ earlier = {}) => ret.res.err = "UnknownColorspace"
           /\ (unknown # {} /\ earlier # {}) => IsParseError(ret.res.err)
           /\ unknown = {} => ret.res.err # "UnknownColorspace"
           /\ (\A i \in 1..Len(toks) : ~IsCToken(toks[i]))
              => (ret.res.ok => decoder.colorspace = "C420")

\* "H2 Cxyz Wx": the unrecognized colorspace is reported, the later Wx is not
C8_Witness ==
    /\ ret.op = "Decoder::new_with_limits"
    /\ ret.res.err = "UnknownColorspace"
    /\ args.tokens = <<<<72, 50>>, <<67, 120, 121, 122>>, <<87, 120>>>>

\* "W2 H2": no C token, decoded as 4:2:0
C8_WitnessDefault ==
    /\ ret.op = "Decoder::new_with_limits" /\ ret.res.ok
    /\ args.tokens = <<<<87, 50>>, <<72, 50>>>>
    /\ decoder.colorspace = "C420"

(***************************************************************************)
(* Streams of two frame records whose header lines are well-formed or not. *)
(***************************************************************************)
\* FRAME, "FRAME ", "FRAME Ip", FRAMEx, FRAM, the empty line, F, frame,
\* "FRAMEIp ", XFRAME
FrameLines ==
    {<<70, 82, 65, 77, 69>>, <<70, 82, 65, 77, 69, 32>>,
     <<70, 82, 65, 77, 69, 32, 73, 112>>, <<70, 82, 65, 77, 69, 120>>,
     <<70, 82, 65, 77>>, <<>>, <<70>>, <<102, 114, 97, 109, 101>>,
     <<70, 82, 65, 77, 69, 73, 112, 32>>, <<88, 70, 82, 65, 77, 69>>}

FrameHdrStreams ==
    {ShortPrologue \o <<10>> \o l1 \o <<10, 7>> \o l2 \o <<10>> \o tail :
        l1 \in FrameLines, l2 \in FrameLines, tail \in {<<>>, <<8>>}}

InitFrameHdr == config = None /\ args = None /\ InitDecode(FrameHdrStreams)

SpecFrameHdr == InitFrameHdr /\ [][DecodeNext]_vars

(***************************************************************************)
(* C10: read_frame on a line equal to FRAME yields a frame without raw     *)
(* parameters; on FRAME, a space and bytes P it yields the raw parameters  *)
(* P; on any other line it fails with ParseError::InvalidY4M.  Only the    *)
(* bytes of the current line decide: what earlier scans left in the        *)
(* header-scratch buffer does not.  (A frame is yielded when its payload   *)
(* follows in full, else the call returns EOF.)                            *)
(***************************************************************************)
C10_FrameHeaderGrammar ==
    ret.op = "read_frame"
    => LET s == input.val
           from == ret.arg.pos
           terms == {i \in 1..(Len(s) - from) : s[from + i] = 10}
           line == SubSeq(s, from + 1, from + SetMin(terms) - 1)
           payload == Len(s) - from - Len(line) - 1
           yields == ret.res.ok <=> payload >= Len(decoder.frame_buf)
       IN  terms # {}
           => IF line = <<70, 82, 65, 77, 69>>
              THEN /\ yields
                   /\ ret.res.ok => ret.res.val.raw_params.tag = "None"
                   /\ ~ret.res.ok => ret.res.err = "EOF"
              ELSE IF Len(line) >= 6 /\ SubSeq(line, 1, 6) = <<70, 82, 65, 77, 69, 32>>
              THEN /\ yields
                   /\ ret.res.ok => /\ ret.res.val.raw_params.tag = "Some"
                                    /\ ret.res.val.raw_params.val = SubSeq(line, 7, Len(line))
                   /\ ~ret.res.ok => ret.res.err = "EOF"
              ELSE ~ret.res.ok /\ ret.res.err = "ParseError::InvalidY4M"

\* the line FRAM after the record "FRAME Ip": the buffer still holds " Ip" behind
\* the new line, and the line is refused
C10_Witness ==
    /\ ret.op = "read_frame" /\ ret.res.err = "ParseError::InvalidY4M"
    /\ nread = 1
    /\ pos - ret.arg.pos = 5
    /\ BufAt(decoder.params_buf, 0) = 70 /\ BufAt(decoder.params_buf, 3) = 77
    /\ BufAt(decoder.params_buf, 5) = 32 /\ BufAt(decoder.params_buf, 6) = 73

(***************************************************************************)
(* Encoding and decoding over a transport that can fail.  The writer's     *)
(* failure is armed before the header or before the first frame is         *)
(* written, the reader's before the prologue or before the first frame is  *)
(* read; a failure is met once and the stream then goes on.                *)
(***************************************************************************)
MaxFaultAt == 6    \* a failure is met at most this many bytes into the stream

IoKinds == {"UnexpectedEof", "Other"}

\* the writer will fail with an io::Error of this kind after `after` more bytes
WriterFails(after, kind) ==
    /\ Running
    /\ wfault.tag = "None"
    /\ \/ ret.op = "EncoderBuilder::new"
       \/ ret.op = "write_header" /\ ret.res.ok
    /\ wfault' = WFault(after, kind)
    /\ UNCHANGED <<overflow_checks, builder, encoder, out, written, input, pos,
                   decoder, nread, config, args, ret>>

\* the reader will fail with an io::Error of this kind after `after` more bytes
ReaderFails(after, kind) ==
    /\ Running
    /\ input.tag = "Some"
    /\ \/ ret.op = "into_inner"
       \/ ret.op = "Decoder::new_with_limits" /\ ret.res.ok
    /\ pos + after <= Len(input.val)
    /\ \A i \in 1..Len(input.val) : ~IsIoErr(input.val[i])
    /\ input' = Some(SubSeq(input.val, 1, pos + after)
                     \o <<IF kind = "UnexpectedEof" THEN ErrUnexpectedEof ELSE ErrOther>>
                     \o SubSeq(input.val, pos + after + 1, Len(input.val)))
    /\ UNCHANGED <<wfault, overflow_checks, builder, encoder, out, written, pos,
                   decoder, nread, config, args, ret>>

IoColorspaces == {"Cmono", "C444p10"}

IoNext ==
    \/ \E width \in Dims : EncoderBuilderNew(width, 1, Ratio_new(25, 1))
    \/ \E colorspace \in IoColorspaces : WithColorspace(colorspace)
    \/ WriteHeader
    \/ /\ encoder.tag = "Encoder"
       /\ WriteFrame(synth_frame(encoder.y_len, encoder.u_len, encoder.v_len, 9, None))
    \/ \E failure \in IoKinds \cup {"none"} : Flush(failure)
    \/ IntoInner
    \/ DecoderNew(usize_MAX)
    \/ ReadFrame
    \/ \E after \in 0..MaxFaultAt, kind \in IoKinds : WriterFails(after, kind)
    \/ \E after \in 0..MaxFaultAt, kind \in IoKinds : ReaderFails(after, kind)

SpecIo == Init /\ [][IoNext]_vars

\* the kind of the io::Error the stream returned to the operation that ret
\* records, "none" when the stream did not fail
StreamFailure ==
    IF ret.op \in {"Decoder::new_with_limits", "read_frame"}
    THEN LET met == {i \in (ret.arg.pos + 1)..pos : IsIoErr(input.val[i])}
         IN  IF met = {} THEN "none"
             ELSE IF input.val[SetMin(met)] = ErrUnexpectedEof THEN "UnexpectedEof"
             ELSE "Other"
    ELSE IF ret.op \in {"write_header", "write_frame"}
    THEN IF ret.arg.wfault.tag = "Some" /\ wfault.tag = "None"
         THEN ret.arg.wfault.kind ELSE "none"
    ELSE IF ret.op = "flush"
    THEN ret.arg.failure
    ELSE "none"

IoOperations ==
    {"Decoder::new_with_limits", "read_frame", "write_header", "write_frame", "flush"}

(***************************************************************************)
(* C11: in Decoder construction, read_frame, write_header, write_frame and *)
(* flush, a failure of the stream that reports end-of-stream is returned   *)
(* as EOF, never as IoError, and any other failure of the stream is        *)
(* returned as IoError.  It fails in flush, which wraps every error of the *)
(* writer in IoError.                                                      *)
(***************************************************************************)
C11_EndOfStreamIsAlwaysEOF ==
    ret.op \in IoOperations
    => /\ StreamFailure = "UnexpectedEof" => ret.res.err = "EOF"
       /\ StreamFailure = "Other" => ret.res.err = "IoError"

\* in the four operations that go through From<io::Error> the mapping holds
C11_EndOfStreamIsEOFButInFlush ==
    (ret.op \in IoOperations /\ ret.op # "flush") => C11_EndOfStreamIsAlwaysEOF

(***************************************************************************)
(* Streams of records behind a prologue written for a few geometries: each *)
(* record has a header line, well-formed or not, and a payload of the      *)
(* frame size whose first byte is the terminator byte.                     *)
(***************************************************************************)
RecordColorspaces == {"Cmono", "C420", "C422p10", "C444"}

\* FRAME, "FRAME Ip", FRAMEx, FRAM
RecordLines ==
    {<<70, 82, 65, 77, 69>>, <<70, 82, 65, 77, 69, 32, 73, 112>>,
     <<70, 82, 65, 77, 69, 120>>, <<70, 82, 65, 77>>}

RECURSIVE RecordStream(_, _, _)
RecordStream(lines, i, size) ==
    IF i > Len(lines) THEN <<>>
    ELSE lines[i] \o <<10>> \o plane(9, size) \o RecordStream(lines, i + 1, size)

InitRecords ==
    /\ config \in {with_colorspace(EncoderBuilder_new(w, h, Ratio_new(25, 1)), cs) :
                      w \in Dims, h \in Dims, cs \in RecordColorspaces}
    /\ args \in {[tag |-> "Lines", lines |-> l] :
                    l \in UNION {[1..n -> RecordLines] : n \in 0..MaxFrames}}
    /\ LET sizes == get_plane_sizes(config.width, config.height, config.colorspace)
       IN  InitDecode({header_bytes(config)
                       \o RecordStream(args.lines, 1,
                                       sizes.y_len + sizes.u_len + sizes.v_len)})

SpecRecords == InitRecords /\ [][DecodeNext]_vars

\* the bytes of the line that starts behind position from, its terminator
\* included; 0 when no terminator follows
LineLen(from) ==
    LET terms == {i \in 1..(Len(input.val) - from) : input.val[from + i] = 10}
    IN  IF terms = {} THEN 0 ELSE SetMin(terms)

(***************************************************************************)
(* C12: the Decoder never reads past a record boundary.  A successful      *)
(* construction has consumed the prologue up to and including its          *)
(* terminator and nothing more; a successful read_frame has consumed the   *)
(* header line, its terminator and y_len + u_len + v_len payload bytes; a  *)
(* read_frame that fails in the scan or the grammar check of the header    *)
(* has consumed no byte behind the line's terminator.                      *)
(***************************************************************************)
C12_NoReadPastRecord ==
    /\ (ret.op = "Decoder::new_with_limits" /\ ret.res.ok)
       => /\ LineLen(ret.arg.pos) > 0
          /\ pos = ret.arg.pos + LineLen(ret.arg.pos)
    /\ (ret.op = "read_frame" /\ ret.res.ok)
       => /\ LineLen(ret.arg.pos) > 0
          /\ Len(ret.res.val.planes[1]) = decoder.y_len
          /\ Len(ret.res.val.planes[2]) = decoder.u_len
          /\ Len(ret.res.val.planes[1]) + Len(ret.res.val.planes[2])
               + Len(ret.res.val.planes[3])
             = ExactFrameSize(decoder.width, decoder.height, decoder.colorspace)
          /\ pos = ret.arg.pos + LineLen(ret.arg.pos)
                   + ExactFrameSize(decoder.width, decoder.height, decoder.colorspace)
    /\ (ret.op = "read_frame" /\ IsParseError(ret.res.err))
       => IF LineLen(ret.arg.pos) > 0
          THEN pos <= ret.arg.pos + LineLen(ret.arg.pos)
          ELSE pos <= Len(input.val)

\* a frame read whose payload begins with the terminator byte: the reader
\* stands at the first byte of the next record
C12_Witness ==
    /\ ret.op = "read_frame" /\ ret.res.ok /\ nread = 1
    /\ decoder.colorspace = "C420" /\ decoder.width = 2
    /\ ret.res.val.planes[1][1] = 10
    /\ pos < Len(input.val) /\ input.val[pos + 1] = 70

\* a malformed line: the payload behind it has not been touched
C12_WitnessRefused ==
    /\ ret.op = "read_frame" /\ ret.res.err = "ParseError::InvalidY4M"
    /\ pos = ret.arg.pos + 5
    /\ pos < Len(input.val) /\ input.val[pos + 1] = 10

(***************************************************************************)
(* Frames with raw parameters of every kind: the first frame of a stream   *)
(* carries no parameters, the empty string, a short string over 'I', space *)
(* and the terminator byte, or a string that just fits or just exceeds the *)
(* header-scratch buffer; the frames behind it are ordinary ones.          *)
(***************************************************************************)
MaxParamLen == 2   \* length of the short raw parameter strings

ParamAlphabet == {73, 32, 10}

\* the longest raw parameters whose line, "FRAME ", P and the terminator, fits
\* the buffer of MAX_PARAMS_SIZE bytes
LongestParams == MAX_PARAMS_SIZE - Len(FRAME_MAGICK) - 2

ParamInputs ==
    {None}
    \cup {Some(t) : t \in UNION {[1..n -> ParamAlphabet] : n \in 0..MaxParamLen}}
    \cup {Some(PadTo(<<>>, LongestParams)), Some(PadTo(<<>>, LongestParams + 1))}

WriteFrameWithParams ==
    /\ encoder.tag = "Encoder"
    /\ IF written = <<>>
       THEN \E params \in ParamInputs :
               WriteFrame(synth_frame(encoder.y_len, encoder.u_len, encoder.v_len,
                                      9, params))
       ELSE \E f \in FrameInputs :
               WriteFrame(synth_frame(encoder.y_len, encoder.u_len, encoder.v_len,
                                      f.seed, f.params))

ParamsNext ==
    \/ \E width \in Dims, height \in Dims : EncoderBuilderNew(width, height, Ratio_new(25, 1))
    \/ \E colorspace \in RecordColorspaces : WithColorspace(colorspace)
    \/ WriteHeader
    \/ WriteFrameWithParams
    \/ IntoInner
    \/ DecoderNew(usize_MAX)
    \/ ReadFrame

SpecParams == Init /\ [][ParamsNext]_vars

\* the read_frame call that ret records returned the raw parameters and the
\* planes of the frame written at its place
ReadBackWithParams ==
    LET f == written[ret.arg.nread + 1]
    IN  /\ ret.res.ok
        /\ ret.res.val.raw_params.tag = f.raw_params.tag
        /\ f.raw_params.tag = "Some" => ret.res.val.raw_params.val = f.raw_params.val
        /\ ret.res.val.planes[1] = f.planes[1]
        /\ ret.res.val.planes[2] = f.planes[2]
        /\ ret.res.val.planes[3] = f.planes[3]

\* raw parameters that leave a record well-formed
PlainParams(params) ==
    params.tag = "Some"
    => /\ \A i \in 1..Len(params.val) : params.val[i] # 10
       /\ Len(params.val) <= 1017

(***************************************************************************)
(* C13 as stated: a frame written with any raw parameters P, absent, empty *)
(* or any byte string, is read back with raw parameters P and the planes   *)
(* written, and so are the frames written after it.  It fails for a P that *)
(* holds the terminator byte and for a P of more than 1017 bytes.          *)
(***************************************************************************)
C13_AnyParamsRoundTrip ==
    (ret.op = "read_frame" /\ ret.arg.nread < Len(written)) => ReadBackWithParams

(***************************************************************************)
(* C13 amended: a frame written with raw parameters P that are absent,     *)
(* empty or a byte string without the terminator byte and of at most 1017  *)
(* bytes, in a stream whose earlier frames are such too, is read back with *)
(* raw parameters P and the planes written, and so are the frames written  *)
(* after it.                                                               *)
(***************************************************************************)
C13_PlainParamsRoundTrip ==
    (/\ ret.op = "read_frame" /\ ret.arg.nread < Len(written)
     /\ \A j \in 1..(ret.arg.nread + 1) : PlainParams(written[j].raw_params))
    => ReadBackWithParams

\* the second frame read back behind a first one whose parameters are " I"
C13_Witness ==
    /\ ret.op = "read_frame" /\ ret.res.ok /\ ret.arg.nread = 1
    /\ written[1].raw_params.tag = "Some" /\ written[1].raw_params.val = <<32, 73>>
    /\ ret.res.val.raw_params.tag = "Some" /\ ret.res.val.raw_params.val = <<73>>

\* empty parameters read back as empty, not as absent
C13_WitnessEmpty ==
    /\ ret.op = "read_frame" /\ ret.res.ok /\ ret.arg.nread = 0
    /\ written[1].raw_params.tag = "Some" /\ written[1].raw_params.val = <<>>
    /\ ret.res.val.raw_params.tag = "Some" /\ ret.res.val.raw_params.val = <<>>

\* the longest parameters that fit are read back
C13_WitnessLongest ==
    /\ ret.op = "read_frame" /\ ret.res.ok /\ ret.arg.nread = 0
    /\ written[1].raw_params.tag = "Some" /\ Len(written[1].raw_params.val) = 1017
    /\ Len(ret.res.val.raw_params.val) = 1017

====
